---- MODULE Spec2Model ----
(***************************************************************************)
(* A model of FiscalAgent: the FinancialChatbot of chatbot/core.py (the    *)
(* dataframe, the four metric operations and the text interface) and the   *)
(* chat endpoint of app.py with its in-memory session store.               *)
(***************************************************************************)
EXTENDS Integers, Sequences, FiniteSets, TLC

VARIABLES
    df,         \* FinancialChatbot.df: the rows of the CSV, in file order
    pc,         \* "idle" before the direct call of a run, "done" after it
    call,       \* the call made on the bot: its operation and its arguments
    result,     \* what that call returned
    plots,      \* the figures saved under PLOTS_DIR: file name and plotted series
    SESSIONS,   \* app.SESSIONS: session id -> session mapping
    threads,    \* chat_api requests in flight, each past line 28
    responses   \* the JSON responses chat_api has returned, in order

vars == <<df, pc, call, result, plots, SESSIONS, threads, responses>>

-----------------------------------------------------------------------------
(* Bounds of the model. *)

\* rows of a dataframe of the metric operations' specification
MaxRows == 2
\* rows of a dataframe of the text interface's specification
MaxInterpRows == 2
\* chat requests received in one run of the web layer
MaxRequests == 2

-----------------------------------------------------------------------------
(* Python values.  A float, an int or None is a record of one shape, so    *)
(* that any two of them can be compared: tag "num" is the rational n/d     *)
(* (d > 0, lowest terms), "nan" is float('nan') (pandas' missing value),   *)
(* "inf" is float('inf'), "none" is None.                                  *)

Abs(i) == IF i < 0 THEN -i ELSE i

RECURSIVE Gcd(_, _)
Gcd(a, b) == IF b = 0 THEN a ELSE Gcd(b, a % b)

Frac(n, d) ==
    LET s == IF d < 0 THEN -1 ELSE 1
        g == Gcd(Abs(n), Abs(d))
    IN  [tag |-> "num", n |-> (s * n) \div g, d |-> (s * d) \div g]

Num(i) == [tag |-> "num", n |-> i, d |-> 1]
NaN == [tag |-> "nan", n |-> 0, d |-> 1]
Inf == [tag |-> "inf", n |-> 1, d |-> 1]
None == [tag |-> "none", n |-> 0, d |-> 1]

IsNum(x) == x.tag = "num"
IsNaN(x) == x.tag = "nan"

\* x == y on floats: NaN equals nothing, itself included
FEq(x, y) == /\ x.tag = y.tag
             /\ x.tag \in {"num", "inf"}
             /\ x.n = y.n
             /\ x.d = y.d
\* x != y on floats: true whenever either side is NaN
FNe(x, y) == ~FEq(x, y)
\* x > 0 on floats: false for NaN
FPos(x) == \/ x.tag = "inf"
           \/ x.tag = "num" /\ x.n > 0
FNeg(x) == x.tag = "num" /\ x.n < 0

\* float arithmetic on finite values, NaN propagating
FSub(x, y) == IF IsNum(x) /\ IsNum(y)
              THEN Frac(x.n * y.d - y.n * x.d, x.d * y.d) ELSE NaN
FAdd(x, y) == IF IsNum(x) /\ IsNum(y)
              THEN Frac(x.n * y.d + y.n * x.d, x.d * y.d) ELSE NaN
FMul(x, y) == IF IsNum(x) /\ IsNum(y)
              THEN Frac(x.n * y.n, x.d * y.d) ELSE NaN
FDiv(x, y) == IF IsNum(x) /\ IsNum(y) /\ y.n # 0
              THEN Frac(x.n * y.d, x.d * y.n) ELSE NaN
FAbs(x) == IF IsNum(x) THEN Frac(Abs(x.n), x.d) ELSE x

\* Python truthiness of an Optional[int]: None and 0 are false
Truthy(x) == ~(x.tag = "none" \/ (x.tag = "num" /\ x.n = 0))

\* str.lower() on the strings of the model
Lower(s) ==
    CASE s = "Apple" -> "apple"
      [] s = "APPLE" -> "apple"
      [] s = "Tesla" -> "tesla"
      [] s = "TESLA" -> "tesla"
      [] s = "Tesle" -> "tesle"
      [] s = "Nokia" -> "nokia"
      [] s = "Total_Revenue" -> "total_revenue"
      [] s = "NET_INCOME" -> "net_income"
      [] s = "Total" -> "total"
      [] s = "Revenue" -> "revenue"
      [] s = "For" -> "for"
      [] OTHER -> s

-----------------------------------------------------------------------------
(* The dataframe. *)

\* the normalised column names of the CSV
Columns == {"year", "total_revenue", "net_income", "total_assets",
            "total_liabilities", "cash_flow_from_operating_activities",
            "company"}

DataCompanies == {"Apple", "Tesla"}
YearVals == {NaN, Num(2022), Num(2023)}
\* (total_revenue, net_income) of a row after pd.to_numeric(errors="coerce")
FinVals == {<<NaN, NaN>>, <<Num(0), Num(0)>>, <<Num(3), Num(-2)>>, <<Num(2), Num(1)>>}

MkRow(c, y, f) ==
    [company |-> c, year |-> y, total_revenue |-> f[1], net_income |-> f[2]]

Rows == {MkRow(c, y, f) : c \in DataCompanies, y \in YearVals, f \in FinVals}

SeqsUpTo(S, n) == UNION {[1..k -> S] : k \in 0..n}

Datasets == SeqsUpTo(Rows, MaxRows)

\* row[col] for a numeric column of the model
Cell(row, col) ==
    CASE col = "year" -> row.year
      [] col = "total_revenue" -> row.total_revenue
      [] col = "net_income" -> row.net_income

\* df[df["company"].str.lower() == company.lower()]
ByCompany(d, company) ==
    SelectSeq(d, LAMBDA r : Lower(r.company) = Lower(company))

\* df[df["year"] == year]
ByYear(d, year) == SelectSeq(d, LAMBDA r : FEq(r.year, year))

\* Series.sum(): missing values are skipped, the empty sum is 0.0
RECURSIVE SumSkipNa(_, _)
SumSkipNa(d, col) ==
    IF d = <<>> THEN Num(0)
    ELSE LET v == Cell(Head(d), col)
             rest == SumSkipNa(Tail(d), col)
         IN  IF IsNaN(v) THEN rest ELSE FAdd(v, rest)

\* the company names of the model in sorted() order
CompanyOrder == <<"Apple", "Tesla">>

\* sorted(df["company"].dropna().unique().tolist())
companies(d) ==
    SelectSeq(CompanyOrder, LAMBDA c : \E i \in DOMAIN d : d[i].company = c)

-----------------------------------------------------------------------------
(* Core metrics. *)

IsNone(x) == x.tag = "none"

\* a percent change that divides by old instead of abs(old)
SafePctChangeSigned(old, new) ==
    IF FEq(old, Num(0))
    THEN (IF FNe(new, Num(0)) THEN Inf ELSE Num(0))
    ELSE FMul(FDiv(FSub(new, old), old), Num(100))

_safe_pct_change(old, new) ==
    IF FEq(old, Num(0))
    THEN (IF FNe(new, Num(0)) THEN Inf ELSE Num(0))
    ELSE FMul(FDiv(FSub(new, old), FAbs(old)), Num(100))

total_revenue(d, company, year) ==
    LET d1 == ByCompany(d, company)
        d2 == IF Truthy(year) THEN ByYear(d1, year) ELSE d1
    IN  IF d2 = <<>> THEN None ELSE SumSkipNa(d2, "total_revenue")

\* a net_income_change that reads both values from year1's rows
NetIncomeChangeSameYear(d, company, year1, year2) ==
    LET d1 == ByCompany(d, company)
        v1 == ByYear(d1, year1)
        v2 == ByYear(d1, year2)
    IN  IF v1 = <<>> \/ v2 = <<>> THEN None
        ELSE [tag |-> "dict", year1 |-> year1, year2 |-> year2,
              val1 |-> v1[1].net_income, val2 |-> v1[1].net_income,
              pct_change |-> _safe_pct_change(v1[1].net_income, v1[1].net_income)]

net_income_change(d, company, year1, year2) ==
    LET d1 == ByCompany(d, company)
        v1 == ByYear(d1, year1)
        v2 == ByYear(d1, year2)
    IN  IF v1 = <<>> \/ v2 = <<>> THEN None
        ELSE LET val1 == v1[1].net_income
                 val2 == v2[1].net_income
             IN  [tag |-> "dict", year1 |-> year1, year2 |-> year2,
                  val1 |-> val1, val2 |-> val2,
                  pct_change |-> _safe_pct_change(val1, val2)]

compare_companies(d, company_a, company_b, metric0, year) ==
    LET metric == Lower(metric0)
    IN  IF metric \notin {"total_revenue", "net_income"} THEN None
        ELSE LET a0 == ByCompany(d, company_a)
                 b0 == ByCompany(d, company_b)
                 df_a == IF Truthy(year) THEN ByYear(a0, year) ELSE a0
                 df_b == IF Truthy(year) THEN ByYear(b0, year) ELSE b0
             IN  IF df_a = <<>> \/ df_b = <<>> THEN None
                 ELSE LET a_val == Cell(df_a[1], metric)
                          b_val == Cell(df_b[1], metric)
                      IN  [tag |-> "dict", company_a |-> company_a,
                           company_b |-> company_b, metric |-> metric,
                           year |-> year, a_val |-> a_val, b_val |-> b_val,
                           diff |-> FSub(a_val, b_val),
                           pct_diff |-> _safe_pct_change(b_val, a_val)]

\* .dropna(subset=[metric, "year"])
DropNa(d, metric) ==
    SelectSeq(d, LAMBDA r : ~IsNaN(Cell(r, metric)) /\ ~IsNaN(r.year))

\* a < b on the finite years of two rows
YearLess(a, b) == a.year.n * b.year.d < b.year.n * a.year.d

\* insert row r after the rows whose year is not greater (a stable insertion)
RECURSIVE InsertByYear(_, _)
InsertByYear(sorted, r) ==
    IF sorted = <<>> THEN <<r>>
    ELSE IF YearLess(r, Head(sorted)) THEN <<r>> \o sorted
    ELSE <<Head(sorted)>> \o InsertByYear(Tail(sorted), r)

RECURSIVE SortFrom(_, _)
SortFrom(sorted, d) ==
    IF d = <<>> THEN sorted
    ELSE SortFrom(InsertByYear(sorted, Head(d)), Tail(d))

\* a sort that leaves the rows in file order
SortValuesNoop(d) == d

\* .sort_values("year")
sort_values(d) == SortFrom(<<>>, d)

\* company.replace(' ', '_'): the company names of the model hold no space
ReplaceSpaces(s) == s

\* trend_plot: what it returns (path) and the figure it saves (figure, None
\* when nothing is saved); now is int(datetime.utcnow().timestamp())
trend_plot(d, company, metric0, now) ==
    LET metric == Lower(metric0)
    IN  IF metric \notin Columns THEN [path |-> None, figure |-> None]
        ELSE LET d1 == sort_values(DropNa(ByCompany(d, company), metric))
             IN  IF d1 = <<>> THEN [path |-> None, figure |-> None]
                 ELSE LET fname == [tag |-> "file",
                                    company |-> ReplaceSpaces(company),
                                    metric |-> metric, ts |-> now,
                                    ext |-> ".png"]
                      IN  [path |-> [tag |-> "path", dir |-> "/static/plots/",
                                     fname |-> fname],
                           figure |-> [tag |-> "figure", fname |-> fname,
                                       x |-> [i \in DOMAIN d1 |-> d1[i].year],
                                       y |-> [i \in DOMAIN d1 |-> Cell(d1[i], metric)],
                                       rows |-> d1]]

\* plt.savefig(path): the file is written, replacing one of the same name
SaveFig(files, figure) ==
    IF IsNone(figure) THEN files
    ELSE {f \in files : f.fname # figure.fname} \cup {figure}

-----------------------------------------------------------------------------
(* Direct calls of the metric operations, as the tests make them. *)

CompanyArgs == {"Apple", "APPLE", "tesla", "Nokia"}
YearArgs == {None, Num(0), Num(2022), Num(2023)}
MetricArgs == {"total_revenue", "net_income", "NET_INCOME", "total_debt"}
Clock == {1700000000, 1700000001}

IdleWeb == /\ SESSIONS = <<>>
           /\ threads = {}
           /\ responses = <<>>

Init ==
    /\ df \in Datasets
    /\ pc = "idle"
    /\ call = [op |-> "none"]
    /\ result = None
    /\ plots = {}
    /\ IdleWeb

CallTotalRevenue ==
    /\ pc = "idle"
    /\ \E c \in CompanyArgs, y \in YearArgs :
          /\ call' = [op |-> "total_revenue", company |-> c, year |-> y]
          /\ result' = total_revenue(df, c, y)
    /\ pc' = "done"
    /\ UNCHANGED <<df, plots, SESSIONS, threads, responses>>

CallNetIncomeChange ==
    /\ pc = "idle"
    /\ \E c \in CompanyArgs, y1 \in YearArgs \ {None}, y2 \in YearArgs \ {None} :
          /\ call' = [op |-> "net_income_change", company |-> c,
                      year1 |-> y1, year2 |-> y2]
          /\ result' = net_income_change(df, c, y1, y2)
    /\ pc' = "done"
    /\ UNCHANGED <<df, plots, SESSIONS, threads, responses>>

CallCompareCompanies ==
    /\ pc = "idle"
    /\ \E a \in CompanyArgs, b \in CompanyArgs, m \in MetricArgs, y \in YearArgs :
          /\ call' = [op |-> "compare_companies", company_a |-> a,
                      company_b |-> b, metric |-> m, year |-> y]
          /\ result' = compare_companies(df, a, b, m, y)
    /\ pc' = "done"
    /\ UNCHANGED <<df, plots, SESSIONS, threads, responses>>

CallTrendPlot ==
    /\ pc = "idle"
    /\ \E c \in CompanyArgs, m \in MetricArgs, now \in Clock :
          LET r == trend_plot(df, c, m, now)
          IN  /\ call' = [op |-> "trend_plot", company |-> c, metric |-> m]
              /\ result' = r.path
              /\ plots' = SaveFig(plots, r.figure)
    /\ pc' = "done"
    /\ UNCHANGED <<df, SESSIONS, threads, responses>>

Next ==
    \/ CallTotalRevenue
    \/ CallNetIncomeChange
    \/ CallCompareCompanies
    \/ CallTrendPlot

Spec == Init /\ [][Next]_vars

-----------------------------------------------------------------------------
(* What the claims about the metric operations speak of. *)

\* the rows of d of a company (compared case-insensitively) and, when a year
\* is given, of exactly that year
MatchingRows(d, company, year) ==
    SelectSeq(d, LAMBDA r : /\ Lower(r.company) = Lower(company)
                            /\ (IsNone(year) \/ FEq(r.year, year)))

\* the sum of a column over rows, a missing value making the sum missing
RECURSIVE SumOf(_, _)
SumOf(d, col) ==
    IF d = <<>> THEN Num(0) ELSE FAdd(Cell(Head(d), col), SumOf(Tail(d), col))

\* the sum of a column over rows, a missing value counted as 0
RECURSIVE SumZeroFilled(_, _)
SumZeroFilled(d, col) ==
    IF d = <<>> THEN Num(0)
    ELSE LET v == Cell(Head(d), col)
         IN  FAdd(IF IsNaN(v) THEN Num(0) ELSE v, SumZeroFilled(Tail(d), col))

\* the safe percent change from v1 to v2 as the specification words it
PctChangeOf(v1, v2) ==
    IF IsNum(v1) /\ v1.n = 0
    THEN (IF IsNum(v2) /\ v2.n = 0 THEN Num(0) ELSE Inf)
    ELSE IF IsNum(v1) /\ IsNum(v2)
         THEN Frac((v2.n * v1.d - v1.n * v2.d) * 100 * v1.d, v1.d * v2.d * Abs(v1.n))
         ELSE NaN

\* how often row r occurs in d
Count(d, r) == Cardinality({i \in DOMAIN d : d[i] = r})

Done(op) == pc = "done" /\ call.op = op

\* C2: total_revenue(company, year) is the sum of total_revenue over exactly
\* the rows of the company (case-insensitively) and of the year when one is
\* given, and not-found exactly when there is no such row.
C2_TotalRevenueIsSumOfMatchingRows ==
    Done("total_revenue") =>
        LET m == MatchingRows(df, call.company, call.year)
        IN  IF m = <<>> THEN IsNone(result)
            ELSE result = SumOf(m, "total_revenue")

\* C9: a missing total_revenue is not counted as 0: when a matching row has a
\* missing total_revenue, the result is not the sum that counts it as 0.
C9_MissingRevenueIsNotZero ==
    Done("total_revenue") =>
        LET m == MatchingRows(df, call.company, call.year)
        IN  (\E i \in DOMAIN m : IsNaN(m[i].total_revenue))
                => result # SumZeroFilled(m, "total_revenue")

\* C3: net_income_change is not-found exactly when the company lacks a row
\* for year1 or for year2; otherwise val1 and val2 are the net_income of the
\* (first) row of year1 and of year2 and pct_change is the safe percent change
\* from val1 to val2.
C3_NetIncomeChange ==
    Done("net_income_change") =>
        LET r1 == MatchingRows(df, call.company, call.year1)
            r2 == MatchingRows(df, call.company, call.year2)
        IN  IF r1 = <<>> \/ r2 = <<>> THEN IsNone(result)
            ELSE /\ result.tag = "dict"
                 /\ result.year1 = call.year1
                 /\ result.year2 = call.year2
                 /\ result.val1 = r1[1].net_income
                 /\ result.val2 = r2[1].net_income
                 /\ result.pct_change = PctChangeOf(r1[1].net_income, r2[1].net_income)

\* a change between two different years, from a negative baseline
C3_Witness ==
    /\ Done("net_income_change")
    /\ result.tag = "dict"
    /\ call.year1 # call.year2
    /\ FNeg(result.val1)
    /\ IsNum(result.val2)
    /\ result.val2 # result.val1

\* C4: compare_companies is not-found for a metric outside {total_revenue,
\* net_income} (by its lower-cased name) and whenever either company has no
\* row after the optional year filter; otherwise a_val and b_val are the
\* metric of the first matching row of each, diff = a_val - b_val and pct_diff
\* is the safe percent change from b_val to a_val.
C4_CompareCompanies ==
    Done("compare_companies") =>
        LET ra == MatchingRows(df, call.company_a, call.year)
            rb == MatchingRows(df, call.company_b, call.year)
            m == Lower(call.metric)
        IN  IF m \notin {"total_revenue", "net_income"} \/ ra = <<>> \/ rb = <<>>
            THEN IsNone(result)
            ELSE /\ result.tag = "dict"
                 /\ result.a_val = Cell(ra[1], m)
                 /\ result.b_val = Cell(rb[1], m)
                 /\ result.diff = FSub(Cell(ra[1], m), Cell(rb[1], m))
                 /\ result.pct_diff = PctChangeOf(Cell(rb[1], m), Cell(ra[1], m))

\* the rows of a company whose metric and year are both present
TrendRows(d, company, metric) ==
    SelectSeq(d, LAMBDA r : /\ Lower(r.company) = Lower(company)
                            /\ ~IsNaN(Cell(r, metric))
                            /\ ~IsNaN(r.year))

\* C5: trend_plot plots exactly the company's rows whose metric and year are
\* both present, in non-decreasing year order; it is not-found when the metric
\* is no column or no such row exists, and returns a '.png' path otherwise.
C5_TrendSeries ==
    Done("trend_plot") =>
        LET m == Lower(call.metric)
        IN  IF m \notin Columns \/ TrendRows(df, call.company, m) = <<>>
            THEN IsNone(result) /\ plots = {}
            ELSE LET rows == TrendRows(df, call.company, m)
                 IN  /\ result.tag = "path"
                     /\ result.fname.ext = ".png"
                     /\ \E f \in plots :
                          /\ f.fname = result.fname
                          /\ Len(f.rows) = Len(rows)
                          /\ \A i \in DOMAIN rows : Count(f.rows, rows[i]) = Count(rows, rows[i])
                          /\ \A i \in DOMAIN f.rows :
                               /\ f.x[i] = f.rows[i].year
                               /\ f.y[i] = Cell(f.rows[i], m)
                          /\ \A i, j \in DOMAIN f.x : i < j => f.x[i].n <= f.x[j].n

\* a plot of two rows that the file holds in descending year order
C5_Witness ==
    /\ Done("trend_plot")
    /\ result.tag = "path"
    /\ \E f \in plots :
         /\ Len(f.rows) = 2
         /\ f.rows # TrendRows(df, call.company, Lower(call.metric))

\* C7: with rows for both years whose net_income values are both present and
\* non-zero, pct_change of (y1, y2) and of (y2, y1) have opposite signs, and
\* both are 0 when the two values are equal.
C7_PctChangeAntisymmetric ==
    Done("net_income_change") /\ result.tag = "dict" =>
        LET back == net_income_change(df, call.company, call.year2, call.year1)
            v1 == result.val1
            v2 == result.val2
            p == result.pct_change
            q == back.pct_change
        IN  (IsNum(v1) /\ IsNum(v2) /\ v1.n # 0 /\ v2.n # 0) =>
                /\ back.tag = "dict"
                /\ (v1 = v2 => p = Num(0) /\ q = Num(0))
                /\ (v1 # v2 => \/ FPos(p) /\ FNeg(q)
                               \/ FNeg(p) /\ FPos(q))

\* a change from a negative to a positive net income
C7_Witness ==
    /\ Done("net_income_change")
    /\ result.tag = "dict"
    /\ FNeg(result.val1)
    /\ FPos(result.val2)
    /\ FPos(result.pct_change)

-----------------------------------------------------------------------------
(* The text interface.  A text is the sequence of its words, which single   *)
(* spaces separate; t = text.lower() is the sequence of the lowered words.  *)

LowerText(text) == [i \in DOMAIN text |-> Lower(text[i])]

\* the keywords and lowered company names that are substrings of a lowered word
SubstringsOf(w) ==
    CASE w = "summary" -> {"sum", "summary"}
      [] w = "profits" -> {"profit", "profits"}
      [] w = "apple's" -> {"apple", "apple's"}
      [] OTHER -> {w}

\* kw in t, for a keyword without a space
In(kw, t) == \E i \in DOMAIN t : kw \in SubstringsOf(t[i])

\* "net income" in t
InNetIncome(t) ==
    \E i \in DOMAIN t : i + 1 \in DOMAIN t /\ t[i] = "net" /\ t[i + 1] = "income"

\* int(y) for the words that \b(?:19|20)\d{2}\b matches
YearOfWord ==
    [w \in {"1999", "2022", "2023"} |->
        CASE w = "1999" -> 1999 [] w = "2022" -> 2022 [] w = "2023" -> 2023]

_parse_years(text) ==
    LET ys == SelectSeq(text, LAMBDA w : w \in DOMAIN YearOfWord)
    IN  [i \in DOMAIN ys |-> Num(YearOfWord[ys[i]])]

\* the threshold parameter of _best_company_match
threshold == 65

\* fuzz.token_sort_ratio(name, company) in hundredths, for the names of the
\* model: 100 * 2 * LCS / (len(name) + len(company)) on the sorted words
token_sort_ratio(name, company) ==
    CASE name = <<"Tesle">> /\ company = "Tesla" -> 8000
      [] name = <<"Tesle">> /\ company = "Apple" -> 4000
      [] name = <<"Tesle", "2022">> /\ company = "Tesla" -> 5333
      [] name = <<"Tesle", "2022">> /\ company = "Apple" -> 2667
      [] name = <<"Nokia">> /\ company = "Tesla" -> 2000
      [] name = <<"Nokia">> /\ company = "Apple" -> 0
      [] name = <<"Nokia", "2022">> /\ company = "Tesla" -> 1333
      [] name = <<"Nokia", "2022">> /\ company = "Apple" -> 0
      [] OTHER -> 0

\* process.extractOne: the first choice of the best score, None without choices
extractOne(name, choices) ==
    IF choices = <<>> THEN None
    ELSE LET best == CHOOSE i \in DOMAIN choices :
                        /\ \A j \in DOMAIN choices :
                             token_sort_ratio(name, choices[j]) <= token_sort_ratio(name, choices[i])
                        /\ \A j \in 1..(i - 1) :
                             token_sort_ratio(name, choices[j]) < token_sort_ratio(name, choices[i])
         IN  [tag |-> "match", choice |-> choices[best],
              score |-> token_sort_ratio(name, choices[best])]

\* a company, or None: [tag |-> "str", s |-> name]
Str(c) == [tag |-> "str", s |-> c]

_best_company_match(d, name) ==
    IF name = <<>> THEN None
    ELSE LET r == extractOne(name, companies(d))
         IN  IF ~IsNone(r) /\ r.score >= threshold * 100 THEN Str(r.choice) ELSE None

\* re.search(r"for\s+([A-Za-z0-9 &._-]+)", text, re.I).group(1).strip(): the
\* words after the first word "for" (in any case) that is not the last;
\* <<>> stands for no match
ForGroup(text) ==
    LET hits == {i \in DOMAIN text : Lower(text[i]) = "for" /\ i < Len(text)}
    IN  IF hits = {} THEN <<>>
        ELSE LET i == CHOOSE h \in hits : \A k \in hits : h <= k
             IN  SubSeq(text, i + 1, Len(text))

\* lines 156-160: the company the text names, or None
DetectCompany(d, text) ==
    LET t == LowerText(text)
        cs == companies(d)
        exact == SelectSeq(cs, LAMBDA c : In(Lower(c), t))
    IN  IF exact # <<>> THEN Str(exact[1])
        ELSE IF ForGroup(text) # <<>> THEN _best_company_match(d, ForGroup(text))
        ELSE None

\* lines 165-170: the metric the text names, or None
DetectMetric(t) ==
    IF In("revenue", t) THEN Str("total_revenue")
    ELSE IF InNetIncome(t) \/ In("profit", t) THEN Str("net_income")
    ELSE None

\* the three triggers of lines 173, 187 and 203
TotalRevenueTrigger(text) ==
    LET t == LowerText(text)
    IN  /\ DetectMetric(t) = Str("total_revenue")
        /\ (In("total", t) \/ In("sum", t) \/ In("overall", t))

NetIncomeChangeTrigger(text) ==
    LET t == LowerText(text)
    IN  /\ DetectMetric(t) = Str("net_income")
        /\ In("change", t)
        /\ Len(_parse_years(text)) >= 2

TrendTrigger(text) ==
    LET t == LowerText(text)
    IN  In("trend", t) \/ In("plot", t) \/ In("chart", t)

\* round(x) of a finite x to an integer, ties to even, as format() rounds
RoundHalfEven(x) ==
    LET q == x.n \div x.d
        r == x.n % x.d
    IN  IF 2 * r < x.d THEN q
        ELSE IF 2 * r > x.d THEN q + 1
        ELSE IF q % 2 = 0 THEN q ELSE q + 1

\* f"{x:,.0f}" and f"{x:.2f}": the value rounded to 0 and to 2 decimals
Format0f(x) == IF IsNum(x) THEN Num(RoundHalfEven(x)) ELSE x
Format2f(x) == IF IsNum(x) THEN Frac(RoundHalfEven(FMul(x, Num(100))), 100) ELSE x

\* the empty mapping {}
EmptyDict == [tag |-> "dict", items |-> {}]

\* a session that interpret writes a context entry into
SessionWithContext(session) ==
    IF IsNone(session) \/ session.items = {}
    THEN [tag |-> "dict", items |-> {<<"last", "seen">>}]
    ELSE [tag |-> "dict", items |-> session.items \cup {<<"last", "seen">>}]

\* session or {}
SessionOrEmpty(session) ==
    IF IsNone(session) \/ session.items = {} THEN EmptyDict ELSE session

Reply(text, image, session) ==
    [text |-> text, image |-> image, session |-> session]

FallbackText ==
    [msg |-> "Sorry, I can answer things like:\n- 'Total revenue for Apple in 2023'\n- 'Net income change for Microsoft between 2022 and 2024'\n- 'Show revenue trend for Tesla'"]

\* the trend branch of interpret, lines 203-213
TrendBranch(d, company, metric, session, now) ==
    IF IsNone(company)
    THEN [reply |-> Reply([msg |-> "Which company's trend?"], None, session),
          figure |-> None]
    ELSE LET m == IF IsNone(metric) THEN "total_revenue" ELSE metric.s
             img == trend_plot(d, company.s, m, now)
         IN  [reply |-> Reply([msg |-> "Here's the {metric} trend for {company}.",
                               metric |-> m, company |-> company.s],
                              img.path, session),
              figure |-> img.figure]

\* the total-revenue branch of interpret, lines 174-184
TotalRevenueBranch(d, company, years, session) ==
    IF IsNone(company)
    THEN [reply |-> Reply([msg |-> "Which company?"], None, session),
          figure |-> None]
    ELSE LET year == IF years # <<>> THEN years[1] ELSE None
             val == total_revenue(d, company.s, year)
         IN  IF IsNone(val)
             THEN [reply |-> Reply([msg |-> "No data found."], None, session),
                   figure |-> None]
             ELSE [reply |-> Reply([msg |-> "Total revenue for {company}{ in year} is ${val:,.0f}.",
                                    company |-> company.s,
                                    year |-> IF Truthy(year) THEN year ELSE None,
                                    val |-> Format0f(val)], None, session),
                   figure |-> None]

\* the net-income-change branch of interpret, lines 188-200
NetIncomeChangeBranch(d, company, years, session) ==
    IF IsNone(company)
    THEN [reply |-> Reply([msg |-> "Which company?"], None, session),
          figure |-> None]
    ELSE LET res == net_income_change(d, company.s, years[1], years[2])
         IN  IF IsNone(res)
             THEN [reply |-> Reply([msg |-> "No data for those years."], None, session),
                   figure |-> None]
             ELSE [reply |-> Reply([msg |-> "{company}'s net income {sign} from ${val1:,} in {year1} to ${val2:,} in {year2} ({pct_change:.2f}% change).",
                                    company |-> company.s,
                                    sign |-> IF FPos(res.pct_change)
                                             THEN "increased" ELSE "decreased",
                                    val1 |-> res.val1, year1 |-> res.year1,
                                    val2 |-> res.val2, year2 |-> res.year2,
                                    pct_change |-> Format2f(res.pct_change)],
                                   None, session),
                   figure |-> None]

\* an interpret that tries the trend rule before the net-income-change rule
InterpretTrendFirst(d, text, session0, now) ==
    LET session == SessionOrEmpty(session0)
        company == DetectCompany(d, text)
        years == _parse_years(text)
        metric == DetectMetric(LowerText(text))
    IN  IF TotalRevenueTrigger(text)
        THEN TotalRevenueBranch(d, company, years, session)
        ELSE IF TrendTrigger(text)
        THEN TrendBranch(d, company, metric, session, now)
        ELSE IF NetIncomeChangeTrigger(text)
        THEN NetIncomeChangeBranch(d, company, years, session)
        ELSE [reply |-> Reply(FallbackText, None, session), figure |-> None]

\* interpret: the reply it returns and the figure its trend branch saves
interpret(d, text, session0, now) ==
    LET session == SessionOrEmpty(session0)
        company == DetectCompany(d, text)
        years == _parse_years(text)
        metric == DetectMetric(LowerText(text))
    IN  IF TotalRevenueTrigger(text)
        THEN TotalRevenueBranch(d, company, years, session)
        ELSE IF NetIncomeChangeTrigger(text)
        THEN NetIncomeChangeBranch(d, company, years, session)
        ELSE IF TrendTrigger(text)
        THEN TrendBranch(d, company, metric, session, now)
        ELSE [reply |-> Reply(FallbackText, None, session), figure |-> None]

-----------------------------------------------------------------------------
(* Direct calls of interpret. *)

\* the rows of the dataframes interpret is called on
InterpRows ==
    {MkRow("Apple", y, f) : y \in {Num(2022), Num(2023)},
                            f \in {<<NaN, NaN>>, <<Num(3), Num(-2)>>}}
    \cup {MkRow("Tesla", Num(2022), f) : f \in {<<NaN, NaN>>, <<Num(2), Num(1)>>}}

InterpDatasets == SeqsUpTo(InterpRows, MaxInterpRows)

\* the texts: one choice of words per slot, concatenated
Texts ==
    {a \o m \o c \o k \o y \o n :
        a \in {<<>>, <<"Total">>},
        m \in {<<>>, <<"revenue">>, <<"net", "income">>, <<"profits">>,
               <<"revenue", "net", "income">>},
        c \in {<<>>, <<"change">>},
        k \in {<<>>, <<"trend">>, <<"chart">>},
        y \in {<<>>, <<"2022">>, <<"2022", "2023">>},
        n \in {<<>>, <<"Apple">>, <<"for", "Tesle">>, <<"for", "Nokia">>,
               <<"for", "Tesle", "2022">>}}

InterpClock == {1700000000}

SessionArgs ==
    {None, EmptyDict, [tag |-> "dict", items |-> {<<"turn", "1">>}]}

InitInterpret ==
    /\ df \in InterpDatasets
    /\ pc = "idle"
    /\ call = [op |-> "none"]
    /\ result = None
    /\ plots = {}
    /\ IdleWeb

CallInterpret ==
    /\ pc = "idle"
    /\ \E text \in Texts, session \in SessionArgs \ {EmptyDict}, now \in InterpClock :
          LET r == interpret(df, text, session, now)
          IN  /\ call' = [op |-> "interpret", text |-> text, session |-> session]
              /\ result' = r.reply
              /\ plots' = SaveFig(plots, r.figure)
    /\ pc' = "done"
    /\ UNCHANGED <<df, SESSIONS, threads, responses>>

NextInterpret == CallInterpret

SpecInterpret == InitInterpret /\ [][NextInterpret]_vars

-----------------------------------------------------------------------------
(* What the claims about interpret speak of. *)

\* a lowered word of the text is, or contains, the keyword
Mentions(text, kw) == \E i \in DOMAIN text : kw \in SubstringsOf(Lower(text[i]))

MentionsNetIncome(text) ==
    \E i \in 1..(Len(text) - 1) : Lower(text[i]) = "net" /\ Lower(text[i + 1]) = "income"

\* rule 1: the metric is revenue and the text says total, sum or overall
RuleTotalRevenue(text) ==
    /\ Mentions(text, "revenue")
    /\ \E kw \in {"total", "sum", "overall"} : Mentions(text, kw)

\* rule 2: the metric is net income, the text says change and holds two years
RuleNetIncomeChange(text) ==
    /\ ~Mentions(text, "revenue")
    /\ (MentionsNetIncome(text) \/ Mentions(text, "profit"))
    /\ Mentions(text, "change")
    /\ Cardinality({i \in DOMAIN text : text[i] \in {"1999", "2022", "2023"}}) >= 2

\* rule 3: the text says trend, plot or chart
RuleTrend(text) == \E kw \in {"trend", "plot", "chart"} : Mentions(text, kw)

TotalRevenueMsgs ==
    {"Which company?", "No data found.",
     "Total revenue for {company}{ in year} is ${val:,.0f}."}
NetIncomeChangeMsgs ==
    {"Which company?", "No data for those years.",
     "{company}'s net income {sign} from ${val1:,} in {year1} to ${val2:,} in {year2} ({pct_change:.2f}% change)."}
TrendMsgs ==
    {"Which company's trend?", "Here's the {metric} trend for {company}."}

\* C1: interpret answers by the first rule that holds in the order
\* total-revenue, net-income-change, trend, and returns the fallback help text
\* exactly when none of the three holds.
C1_FirstMatchingRuleWins ==
    Done("interpret") =>
        LET text == call.text
            msg == result.text.msg
        IN  /\ IF RuleTotalRevenue(text) THEN msg \in TotalRevenueMsgs
               ELSE IF RuleNetIncomeChange(text) THEN msg \in NetIncomeChangeMsgs
               ELSE IF RuleTrend(text) THEN msg \in TrendMsgs
               ELSE msg = FallbackText.msg
            /\ (msg = FallbackText.msg) <=>
                  ~(RuleTotalRevenue(text) \/ RuleNetIncomeChange(text) \/ RuleTrend(text))

\* a text that says trend, net income, change and two years, answered by the
\* net-income-change rule
C1_Witness ==
    /\ Done("interpret")
    /\ RuleTrend(call.text)
    /\ RuleNetIncomeChange(call.text)
    /\ result.text.msg \in NetIncomeChangeMsgs \ {"Which company?", "No data for those years."}

\* C6: when trend_plot finds no data, the trend reply is a not-found message:
\* interpret never returns the success sentence with an absent image.
C6_NoSuccessReplyWithoutImage ==
    Done("interpret") =>
        ~(/\ result.text.msg = "Here's the {metric} trend for {company}."
          /\ IsNone(result.image))

-----------------------------------------------------------------------------
(* The web layer: chat_api of app.py.  Flask serves each request on its own *)
(* thread, so a request is two steps: lines 23-28 read the payload and the  *)
(* store, lines 29-32 call the bot, write the store and respond.            *)

\* the dataframe the application was started on
WebData ==
    <<MkRow("Apple", Num(2022), <<Num(3), Num(-2)>>),
      MkRow("Apple", Num(2023), <<Num(2), Num(1)>>),
      MkRow("Tesla", Num(2022), <<NaN, NaN>>)>>

\* payload.get('message', ''): one message per branch of interpret
WebMessages ==
    {<<>>,
     <<"Total", "revenue">>,
     <<"Total", "revenue", "Apple", "1999">>,
     <<"Total", "revenue", "Apple", "2022">>,
     <<"net", "income", "change", "Apple", "2022", "2023">>,
     <<"trend", "Apple">>}

\* payload.get('session_id'): None when the client sends none
SessionIdArgs == {None, Str("1"), Str("2")}

\* str(n) of a session count
StrOfInt(n) ==
    CASE n = 1 -> "1" [] n = 2 -> "2" [] n = 3 -> "3" [] n = 4 -> "4"
      [] n = 5 -> "5" [] n = 6 -> "6"

\* str(len(SESSIONS) + 1)
NextSessionId(store) == StrOfInt(Cardinality(DOMAIN store) + 1)

\* SESSIONS.get(session_id, {})
SessionsGet(store, sid) == IF sid \in DOMAIN store THEN store[sid] ELSE EmptyDict

\* SESSIONS[session_id] = session
SessionsPut(store, sid, session) ==
    [k \in DOMAIN store \cup {sid} |-> IF k = sid THEN session ELSE store[k]]

Received == Len(responses) + Cardinality(threads)

InitWeb ==
    /\ df = WebData
    /\ pc = "idle"
    /\ call = [op |-> "none"]
    /\ result = None
    /\ plots = {}
    /\ IdleWeb

\* lines 23-28; req numbers the request, auto and was_key record whether the
\* id was generated and whether it was a key of the store at that moment
ChatReceive ==
    /\ Received < MaxRequests
    /\ \E message \in WebMessages, given \in SessionIdArgs :
          LET auto == IsNone(given) \/ given.s = ""
              session_id == IF auto THEN NextSessionId(SESSIONS)
                            ELSE given.s
          IN  threads' = threads \cup
                  {[req |-> Received + 1, message |-> message,
                    session_id |-> session_id,
                    session_obj |-> SessionsGet(SESSIONS, session_id),
                    auto |-> auto,
                    was_key |-> session_id \in DOMAIN SESSIONS]}
    /\ UNCHANGED <<df, pc, call, result, plots, SESSIONS, responses>>

\* lines 29-32
ChatRespond ==
    /\ \E th \in threads, now \in InterpClock :
          LET res == interpret(df, th.message, th.session_obj, now)
          IN  /\ SESSIONS' = SessionsPut(SESSIONS, th.session_id, res.reply.session)
              /\ plots' = SaveFig(plots, res.figure)
              /\ threads' = threads \ {th}
              /\ responses' = Append(responses,
                    [req |-> th.req, session_id |-> th.session_id,
                     auto |-> th.auto, was_key |-> th.was_key,
                     reply |-> res.reply.text, image |-> res.reply.image])
    /\ UNCHANGED <<df, pc, call, result>>

NextWeb ==
    \/ ChatReceive
    \/ ChatRespond

SpecWeb == InitWeb /\ [][NextWeb]_vars

-----------------------------------------------------------------------------
(* What the claims about the web layer speak of. *)

\* the session a caller's session is passed through as
PassedThrough(session) ==
    IF IsNone(session) THEN EmptyDict ELSE session

\* a step of the web layer in which request th is answered
Answers(th) == th \in threads /\ th \notin threads'

C8_Step ==
    \A th \in threads : Answers(th) =>
        LET r == responses'[Len(responses')]
        IN  /\ Len(responses') = Len(responses) + 1
            /\ DOMAIN r = {"req", "session_id", "auto", "was_key", "reply", "image"}
            /\ r.req = th.req
            \* the stored session is the one the request read, unchanged
            /\ SESSIONS'[th.session_id] = th.session_obj
            /\ SESSIONS'[th.session_id] = SessionsGet(SESSIONS, th.session_id)
            /\ \A k \in DOMAIN SESSIONS : SESSIONS'[k] = SESSIONS[k]
            /\ DOMAIN SESSIONS' = DOMAIN SESSIONS \cup {th.session_id}
            \* and so is the session of the reply, whatever the caller passes
            /\ \A s \in SessionArgs, now \in InterpClock :
                 LET rep == interpret(df, th.message, s, now).reply
                 IN  /\ DOMAIN rep = {"text", "image", "session"}
                     /\ rep.session = PassedThrough(s)
                     /\ rep.text = r.reply

\* C8: every branch of interpret returns text, image and the caller's session
\* passed through unchanged (an empty mapping when none was given), so a chat
\* request leaves the value stored for its session id as it was.
C8_SessionPassthrough == [][C8_Step]_vars

\* two answered requests of one session, the second with a chart
C8_Witness ==
    /\ Len(responses) = 2
    /\ responses[1].session_id = responses[2].session_id
    /\ ~responses[2].auto
    /\ responses[2].image.tag = "path"
    /\ SESSIONS[responses[2].session_id] = EmptyDict

\* the requests that came without a session id, answered or in flight
AutoAssigned ==
    {[req |-> r.req, session_id |-> r.session_id, was_key |-> r.was_key] :
        r \in {x \in threads \cup {responses[i] : i \in DOMAIN responses} : x.auto}}

\* C10: a request without a session_id is assigned an id that is no key of
\* the session store and that no other such request is assigned.
C10_FreshSessionIds ==
    /\ \A a \in AutoAssigned : ~a.was_key
    /\ \A a, b \in AutoAssigned : a.req # b.req => a.session_id # b.session_id

====
